---- MODULE Spec2Model ----
(***************************************************************************)
(* Model of src/requirement.rs (resolvo): Condition, Requirement,          *)
(* ConditionalRequirement, their conversions, the lazy version-set         *)
(* expansion and the Display adapter.                                      *)
(*                                                                         *)
(* The library is driven by a client that holds at most one Condition or   *)
(* one ConditionalRequirement at a time, calls the operations on it and    *)
(* keeps what they return.  Vec<Condition> buffers live in a heap of       *)
(* addressed buffers so that moving a Vec (same buffer) and cloning it     *)
(* (fresh buffer) are different things.                                    *)
(***************************************************************************)
EXTENDS Integers, Sequences, FiniteSets, TLC

\* ------------------------------------------------------------------ bounds
MaxVersionSetId == 1
MaxStringId == 0
MaxUnionLen == 2
MaxConds == 2
MaxRuns == 2

VersionSetIds == 0..MaxVersionSetId
StringIds == 0..MaxStringId

\* All sequences over S of length lo..hi.
SeqsOf(S, lo, hi) == UNION {[1..n -> S] : n \in lo..hi}

\* ------------------------------------------------------------- data types
None == [tag |-> "None"]

\* enum Condition { VersionSetId(VersionSetId), Extra(StringId) }
Condition == [tag : {"VersionSetId"}, id : VersionSetIds]
               \cup [tag : {"Extra"}, id : StringIds]

\* enum Requirement { Single(VersionSetId), Union(VersionSetUnionId) }
Requirement == [tag : {"Single"}, id : VersionSetIds]
                 \cup [tag : {"Union"}, id : Nat]

Single(v) == [tag |-> "Single", id |-> v]
Union(u) == [tag |-> "Union", id |-> u]


\* ------------------------------------------------------- the Interner side
\* Member sequences a client may intern as a union: non-empty, ordered,
\* duplicates and any order allowed.
UnionMembers == SeqsOf(VersionSetIds, 1, MaxUnionLen)

\* The interner's union table is the sequence of the interned member
\* sequences; union id u is stored at position u + 1.
intern_version_set_union(interner, members) == Append(interner, members)

\* Interner::version_sets_in_union: the stored members, as an iterator
\* (the elements still to come).
version_sets_in_union(interner, u) == interner[u + 1]

\* Interner::version_set_name: the package a version set belongs to.
version_set_name(v) == v % (MaxStringId + 1)

\* Interner::display_name: text of a package name ("p", "py", "pyy", ...).
display_name(s) == <<"p">> \o [i \in 1..s |-> "y"]

\* Interner::display_version_set: text of a constraint (">=", ">=1", ...).
display_version_set(v) == <<">", "=">> \o [i \in 1..v |-> "1"]

\* ------------------------------------------------------------ conversions
\* impl From<VersionSetId> for Condition
ConditionFromVersionSetId(value) == [tag |-> "VersionSetId", id |-> value]

\* impl From<StringId> for Condition
ConditionFromStringId(value) == [tag |-> "Extra", id |-> value]

\* A plausible slip: the Extra arm hands back the wrapped index.
VersionSetIdFromCondition_coerce(value) == [tag |-> "Ok", id |-> value.id]

\* A plausible slip: the VersionSetId arm hands back the default id.
VersionSetIdFromCondition_default(value) ==
    IF value.tag = "VersionSetId"
    THEN [tag |-> "Ok", id |-> 0]
    ELSE [tag |-> "Panic", msg |-> "Cannot convert Extra to VersionSetId"]

\* impl From<Condition> for VersionSetId: the id, or a panic.
VersionSetIdFromCondition(value) ==
    IF value.tag = "VersionSetId"
    THEN [tag |-> "Ok", id |-> value.id]
    ELSE [tag |-> "Panic", msg |-> "Cannot convert Extra to VersionSetId"]

\* A plausible slip: the two From impls for Requirement swapped variants.
RequirementFromVersionSetId_union(value) == [tag |-> "Union", id |-> value]

\* impl From<VersionSetId> for Requirement
RequirementFromVersionSetId(value) == Single(value)

\* impl From<VersionSetUnionId> for Requirement
RequirementFromVersionSetUnionId(value) == Union(value)

\* --------------------------------------------------------------- Vec heap
\* A Vec<Condition> is a handle (address) of a buffer in the heap.
\* vec![] and Vec::clone make a fresh buffer; a move keeps the buffer.
VecNew(h, items) == [heap |-> Append(h, items), addr |-> Len(h) + 1]

\* A plausible slip: hand out the same buffer instead of a copy.
VecClone_shared(h, a) == [heap |-> h, addr |-> a]

\* Vec::clone in the closure of version_sets_with_condition.
VecClone(h, a) == VecNew(h, h[a])

\* The conditions a client puts on its requirements: one of each variant,
\* in any order and number up to MaxConds.
CondAlphabet == {ConditionFromVersionSetId(0), ConditionFromStringId(0)}
CondSeqs == SeqsOf(CondAlphabet, 0, MaxConds)

\* ------------------------------------------------- ConditionalRequirement
\* A plausible slip: the constructor stores a default requirement.
new_default(conditions, requirement) ==
    [conditions |-> conditions, requirement |-> Single(0)]

\* ConditionalRequirement::new: both fields stored as given.
new(conditions, requirement) ==
    [conditions |-> conditions, requirement |-> requirement]

\* A plausible slip: the two returned fields come from different places.
into_condition_and_requirement_default(self) ==
    [conditions |-> self.conditions, requirement |-> Single(0)]

\* ConditionalRequirement::into_condition_and_requirement: both fields, moved.
into_condition_and_requirement(self) ==
    [conditions |-> self.conditions, requirement |-> self.requirement]

\* impl From<Requirement> for ConditionalRequirement
ConditionalRequirementFromRequirement(h, value) ==
    LET v == VecNew(h, <<>>)
    IN  [heap |-> v.heap,
         cr |-> [conditions |-> v.addr, requirement |-> value]]

\* impl From<VersionSetId> for ConditionalRequirement
ConditionalRequirementFromVersionSetId(h, value) ==
    LET v == VecNew(h, <<>>)
    IN  [heap |-> v.heap,
         cr |-> [conditions |-> v.addr,
                 requirement |-> RequirementFromVersionSetId(value)]]

\* impl From<VersionSetUnionId> for ConditionalRequirement
ConditionalRequirementFromVersionSetUnionId(h, value) ==
    LET v == VecNew(h, <<>>)
    IN  [heap |-> v.heap,
         cr |-> [conditions |-> v.addr,
                 requirement |-> RequirementFromVersionSetUnionId(value)]]

\* impl From<(VersionSetId, Vec<Condition>)> for ConditionalRequirement
ConditionalRequirementFromPair(requirement, conditions) ==
    [conditions |-> conditions,
     requirement |-> RequirementFromVersionSetId(requirement)]

\* ------------------------------------------------------------- expansion
\* An iterator is the sequence of the elements it has still to yield;
\* Either::Left wraps std::iter::once, Either::Right the interner's iterator.

\* A plausible slip: the union's members come out sorted and de-duplicated.
SortedSet(S) ==
    CHOOSE q \in [1..Cardinality(S) -> S] :
        \A i, j \in 1..Cardinality(S) : i < j => q[i] < q[j]

version_sets_sorted(self, interner) ==
    IF self.tag = "Single"
    THEN [tag |-> "Left", rest |-> <<self.id>>]
    ELSE [tag |-> "Right",
          rest |-> LET m == version_sets_in_union(interner, self.id)
                   IN  SortedSet({m[i] : i \in 1..Len(m)})]

\* A plausible slip: a single requirement is looked up as if it were a union.
version_sets_lookup(self, interner) ==
    IF self.tag = "Single"
    THEN [tag |-> "Right", rest |-> <<self.id>>]
    ELSE [tag |-> "Right",
          rest |-> version_sets_in_union(interner, self.id)]

\* Requirement::version_sets
version_sets(self, interner) ==
    IF self.tag = "Single"
    THEN [tag |-> "Left", rest |-> <<self.id>>]
    ELSE [tag |-> "Right",
          rest |-> version_sets_in_union(interner, self.id)]

\* A plausible slip: an iterator that hands out its element without
\* moving on.
EitherNext_stuck(it) ==
    IF it.rest = <<>>
    THEN [item |-> <<>>, it |-> it]
    ELSE [item |-> <<Head(it.rest)>>, it |-> it]

\* Iterator::next of the Either returned by version_sets: None (<<>>) at
\* the end, Some(v) (<<v>>) and the advanced iterator otherwise.
EitherNext(it) ==
    IF it.rest = <<>>
    THEN [item |-> <<>>, it |-> it]
    ELSE [item |-> <<Head(it.rest)>>,
          it |-> [tag |-> it.tag, rest |-> Tail(it.rest)]]

\* A plausible slip: the conditions are skipped when there are any.
requirement_version_sets_gated(self, h, interner) ==
    IF h[self.conditions] = <<>>
    THEN version_sets(self.requirement, interner)
    ELSE [tag |-> "Left", rest |-> <<>>]

\* ConditionalRequirement::requirement_version_sets: the requirement's
\* expansion; the conditions (in h) are not read.
requirement_version_sets(self, h, interner) ==
    version_sets(self.requirement, interner)

\* ConditionalRequirement::version_sets_with_condition: the inner iterator;
\* the closure of its map is WithConditionItem.
version_sets_with_condition(self, h, interner) ==
    version_sets(self.requirement, interner)

\* The closure move |vs| (vs, self.conditions.clone()).
WithConditionItem(self, h, vs) ==
    LET c == VecClone(h, self.conditions)
    IN  [heap |-> c.heap, item |-> [vs |-> vs, conditions |-> c.addr]]

\* ---------------------------------------------------------------- display
Space == <<" ">>
Separator == <<" ", "|", " ">>

\* "{} {}" of a version set: its package name, a space, its constraint.
FormatVersionSet(version_set) ==
    display_name(version_set_name(version_set)) \o Space
        \o display_version_set(version_set)

\* A plausible slip: the separator is written after every member.
RECURSIVE FormatWith_trailing(_, _)
FormatWith_trailing(sep, items) ==
    IF items = <<>> THEN <<>>
    ELSE FormatVersionSet(Head(items)) \o sep
             \o FormatWith_trailing(sep, Tail(items))

\* Itertools::format_with: the first member, then for every further member
\* the separator and the member.
RECURSIVE FormatRest(_, _)
FormatRest(sep, items) ==
    IF items = <<>> THEN <<>>
    ELSE sep \o FormatVersionSet(Head(items)) \o FormatRest(sep, Tail(items))

FormatWith(sep, items) ==
    IF items = <<>> THEN <<>>
    ELSE FormatVersionSet(Head(items)) \o FormatRest(sep, Tail(items))

\* impl Display for DisplayRequirement
fmt(requirement, interner) ==
    IF requirement.tag = "Single"
    THEN FormatVersionSet(requirement.id)
    ELSE FormatWith(Separator, version_sets_in_union(interner, requirement.id))

\* Requirement::display: the adapter renders through fmt.
display(self, interner) == fmt(self, interner)

\* ------------------------------------------------------------------ state
VARIABLES
    unions,     \* the interner's union table
    condIn,     \* the id the client converted into a Condition
    cond,       \* the Condition the client holds
    vsBack,     \* outcome of converting cond back into a VersionSetId
    crSrc,      \* how the held ConditionalRequirement was built, its inputs
    cr,         \* the ConditionalRequirement the client holds
    heap,       \* the Vec<Condition> buffers
    iter,       \* the expansion iterator being stepped
    yielded,    \* what the iterator has yielded so far
    runs,       \* the finished expansions, oldest first
    lookups,    \* version_sets_in_union calls made by expansions
    mutated,    \* the yielded condition copies the client has changed
    rendered,   \* the text written by display
    parts       \* the result of into_condition_and_requirement

vars == <<unions, condIn, cond, vsBack, crSrc, cr, heap, iter, yielded, runs,
          lookups, mutated, rendered, parts>>

convVars == <<condIn, cond, vsBack>>
crVars == <<crSrc, cr, heap, iter, yielded, runs, lookups, mutated, rendered,
            parts>>

Init ==
    /\ unions = <<>>
    /\ condIn = None
    /\ cond = None
    /\ vsBack = None
    /\ crSrc = None
    /\ cr = None
    /\ heap = <<>>
    /\ iter = None
    /\ yielded = <<>>
    /\ runs = <<>>
    /\ lookups = 0
    /\ mutated = {}
    /\ rendered = None
    /\ parts = None

\* The client holds no value.
Free == cond = None /\ cr = None /\ parts = None

\* The requirements a client can name: any version set, any interned union.
Requirements ==
    {Single(v) : v \in VersionSetIds}
        \cup {Union(u) : u \in 0..(Len(unions) - 1)}

\* --------------------------------------------------------------- interner
\* The client interns the union its requirement is going to name: one union
\* per interner, with id 0.
InternUnion(members) ==
    /\ Free
    /\ unions = <<>>
    /\ unions' = intern_version_set_union(unions, members)
    /\ UNCHANGED <<convVars, crVars>>

\* ---------------------------------------------------- Condition conversions
ConvertVersionSetId(v) ==
    /\ Free
    /\ condIn' = [tag |-> "VersionSetId", id |-> v]
    /\ cond' = ConditionFromVersionSetId(v)
    /\ UNCHANGED <<unions, vsBack, crVars>>

ConvertStringId(s) ==
    /\ Free
    /\ condIn' = [tag |-> "StringId", id |-> s]
    /\ cond' = ConditionFromStringId(s)
    /\ UNCHANGED <<unions, vsBack, crVars>>

ConvertBack ==
    /\ cond # None
    /\ vsBack = None
    /\ vsBack' = VersionSetIdFromCondition(cond)
    /\ UNCHANGED <<unions, condIn, cond, crVars>>

\* ------------------------------------------------------------ constructors
Built(src, h, c) ==
    /\ crSrc' = src
    /\ heap' = h
    /\ cr' = c
    /\ UNCHANGED <<unions, convVars, iter, yielded, runs, lookups, mutated,
                   rendered, parts>>

New(conds, req) ==
    /\ Free
    /\ LET v == VecNew(<<>>, conds)
       IN  Built([ctor |-> "new", conds |-> conds, arg |-> req],
                 v.heap, new(v.addr, req))

FromRequirement(req) ==
    /\ Free
    /\ LET b == ConditionalRequirementFromRequirement(<<>>, req)
       IN  Built([ctor |-> "Requirement", conds |-> <<>>, arg |-> req],
                 b.heap, b.cr)

FromVersionSetId(v) ==
    /\ Free
    /\ LET b == ConditionalRequirementFromVersionSetId(<<>>, v)
       IN  Built([ctor |-> "VersionSetId", conds |-> <<>>, arg |-> v],
                 b.heap, b.cr)

FromVersionSetUnionId(u) ==
    /\ Free
    /\ LET b == ConditionalRequirementFromVersionSetUnionId(<<>>, u)
       IN  Built([ctor |-> "VersionSetUnionId", conds |-> <<>>, arg |-> u],
                 b.heap, b.cr)

FromPair(v, conds) ==
    /\ Free
    /\ LET c == VecNew(<<>>, conds)
       IN  Built([ctor |-> "pair", conds |-> conds, arg |-> v],
                 c.heap, ConditionalRequirementFromPair(v, c.addr))

\* --------------------------------------------------------------- expansion
CanExpand ==
    /\ cr # None
    /\ iter = None
    /\ rendered = None
    /\ mutated = {}
    /\ Len(runs) < MaxRuns

Started(kind, it) ==
    /\ iter' = [kind |-> kind, it |-> it]
    /\ yielded' = <<>>
    /\ lookups' = lookups + (IF it.tag = "Right" THEN 1 ELSE 0)
    /\ UNCHANGED <<unions, convVars, crSrc, cr, heap, runs, mutated, rendered,
                   parts>>

CallVersionSets ==
    /\ CanExpand
    /\ Started("version_sets", version_sets(cr.requirement, unions))

CallRequirementVersionSets ==
    /\ CanExpand
    /\ Started("requirement_version_sets",
               requirement_version_sets(cr, heap, unions))

CallVersionSetsWithCondition ==
    /\ CanExpand
    /\ Started("version_sets_with_condition",
               version_sets_with_condition(cr, heap, unions))

\* One next() on version_sets or requirement_version_sets.
IterNext ==
    /\ iter # None
    /\ iter.kind # "version_sets_with_condition"
    /\ LET r == EitherNext(iter.it)
       IN  IF r.item = <<>>
           THEN /\ runs' = Append(runs, [kind |-> iter.kind, items |-> yielded])
                /\ iter' = None
                /\ yielded' = <<>>
           ELSE /\ yielded' = Append(yielded, r.item[1])
                /\ iter' = [kind |-> iter.kind, it |-> r.it]
                /\ runs' = runs
    /\ UNCHANGED <<unions, convVars, crSrc, cr, heap, lookups, mutated,
                   rendered, parts>>

\* One next() on version_sets_with_condition: the inner next(), then the
\* closure on what it gave.
WithConditionNext ==
    /\ iter # None
    /\ iter.kind = "version_sets_with_condition"
    /\ LET r == EitherNext(iter.it)
       IN  IF r.item = <<>>
           THEN /\ runs' = Append(runs, [kind |-> iter.kind, items |-> yielded])
                /\ iter' = None
                /\ yielded' = <<>>
                /\ heap' = heap
           ELSE LET p == WithConditionItem(cr, heap, r.item[1])
                IN  /\ yielded' = Append(yielded, p.item)
                    /\ heap' = p.heap
                    /\ iter' = [kind |-> iter.kind, it |-> r.it]
                    /\ runs' = runs
    /\ UNCHANGED <<unions, convVars, crSrc, cr, lookups, mutated, rendered,
                   parts>>

\* The condition copies handed out by the expansion being stepped or, when
\* none is, by the last finished one.
Handed ==
    IF iter # None THEN yielded
    ELSE IF runs # <<>> THEN runs[Len(runs)].items
    ELSE <<>>

HandedKind ==
    IF iter # None THEN iter.kind
    ELSE IF runs # <<>> THEN runs[Len(runs)].kind
    ELSE "none"

Copies ==
    IF HandedKind = "version_sets_with_condition"
    THEN {Handed[i].conditions : i \in 1..Len(Handed)}
    ELSE {}

\* The client changes one of the condition copies it was handed (one change
\* per held requirement); the expansion under way may go on after it.
MutateCopy(a, items) ==
    /\ cr # None
    /\ a \in Copies
    /\ mutated = {}
    /\ items # heap[a]
    /\ heap' = [heap EXCEPT ![a] = items]
    /\ mutated' = mutated \cup {a}
    /\ UNCHANGED <<unions, convVars, crSrc, cr, iter, yielded, runs, lookups,
                   rendered, parts>>

\* ----------------------------------------------------------------- display
Display ==
    /\ cr # None
    /\ iter = None
    /\ runs = <<>>
    /\ rendered = None
    /\ rendered' = [tag |-> "Text", text |-> display(cr.requirement, unions)]
    /\ UNCHANGED <<unions, convVars, crSrc, cr, heap, iter, yielded, runs,
                   lookups, mutated, parts>>

\* ------------------------------------------------------------ decomposition
Decompose ==
    /\ cr # None
    /\ iter = None
    /\ runs = <<>>
    /\ parts' = into_condition_and_requirement(cr)
    /\ cr' = None
    /\ UNCHANGED <<unions, convVars, crSrc, heap, iter, yielded, runs, lookups,
                   mutated, rendered>>

\* The client drops every value it holds, and the interner with them.
Teardown ==
    /\ iter = None
    /\ ~Free
    /\ unions' = <<>>
    /\ condIn' = None
    /\ cond' = None
    /\ vsBack' = None
    /\ crSrc' = None
    /\ cr' = None
    /\ heap' = <<>>
    /\ iter' = None
    /\ yielded' = <<>>
    /\ runs' = <<>>
    /\ lookups' = 0
    /\ mutated' = {}
    /\ rendered' = None
    /\ parts' = None

\* What a client may put into a copy it changes: the copy cleared, or one
\* condition pushed.
Mutations(items) ==
    {<<>>} \cup {Append(items, c) : c \in CondAlphabet}

Next ==
    \/ \E m \in UnionMembers : InternUnion(m)
    \/ \E v \in VersionSetIds : ConvertVersionSetId(v)
    \/ \E s \in StringIds : ConvertStringId(s)
    \/ ConvertBack
    \/ \E conds \in CondSeqs : \E req \in Requirements : New(conds, req)
    \/ \E req \in Requirements : FromRequirement(req)
    \/ \E v \in VersionSetIds : FromVersionSetId(v)
    \/ \E u \in 0..(Len(unions) - 1) : FromVersionSetUnionId(u)
    \/ \E v \in VersionSetIds : \E conds \in CondSeqs : FromPair(v, conds)
    \/ CallVersionSets
    \/ CallRequirementVersionSets
    \/ CallVersionSetsWithCondition
    \/ IterNext
    \/ WithConditionNext
    \/ \E a \in 1..Len(heap) : \E items \in Mutations(heap[a]) :
           MutateCopy(a, items)
    \/ Display
    \/ Decompose
    \/ Teardown

Spec == Init /\ [][Next]_vars

\* The client that starts an expansion keeps calling next() until the end.
LiveSpec == Spec /\ WF_vars(IterNext) /\ WF_vars(WithConditionNext)

\* ================================================================ claims
Held == cr # None

\* The stored member sequence a requirement stands for, as the claims state
\* it: the one version set of a single requirement, the interned members of
\* a union.
StoredMembers(req) ==
    IF req.tag = "Single" THEN <<req.id>> ELSE unions[req.id + 1]

RunsOf(kind) == {i \in 1..Len(runs) : runs[i].kind = kind}
Stepping(kind) == iter # None /\ iter.kind = kind

\* C1: a StringId converted to a Condition is an extra condition, and
\* converting that Condition to a VersionSetId panics; it never returns an id.
C1_ExtraToVersionSetIdPanics ==
    condIn.tag = "StringId" =>
        /\ cond = [tag |-> "Extra", id |-> condIn.id]
        /\ vsBack # None => vsBack.tag = "Panic"

C1_Witness ==
    /\ condIn.tag = "StringId"
    /\ cond.tag = "Extra"
    /\ vsBack.tag = "Panic"

\* C2: a VersionSetId converted to a Condition is a version-set condition,
\* and converting it back succeeds with the same id.
C2_VersionSetIdRoundTrip ==
    condIn.tag = "VersionSetId" =>
        /\ cond = [tag |-> "VersionSetId", id |-> condIn.id]
        /\ vsBack # None => vsBack = [tag |-> "Ok", id |-> condIn.id]

C2_Witness ==
    /\ condIn.tag = "VersionSetId"
    /\ condIn.id # 0
    /\ vsBack.tag = "Ok"
    /\ vsBack.id = condIn.id

\* C3: every expansion of Requirement::Union(u) with version_sets yields the
\* interned members of u in stored order, duplicates kept; a repeated
\* expansion yields the same again, and the interner's table is as it was.
C3_UnionExpansionInStoredOrder ==
    (Held /\ cr.requirement.tag = "Union") =>
        /\ \A i \in RunsOf("version_sets") :
               runs[i].items = unions[cr.requirement.id + 1]
        /\ Stepping("version_sets") =>
               yielded \o iter.it.rest = unions[cr.requirement.id + 1]

C3_Witness ==
    /\ Held
    /\ cr.requirement.tag = "Union"
    /\ Len(runs) = 2
    /\ runs[1].kind = "version_sets"
    /\ runs[2].kind = "version_sets"
    /\ runs[1].items = <<1, 0>>
    /\ runs[2].items = <<1, 0>>

\* C4: every expansion of Requirement::Single(v) with version_sets yields
\* exactly v, once, whatever the interner holds, and makes no union lookup.
C4_SingleExpansion ==
    (Held /\ cr.requirement.tag = "Single") =>
        /\ lookups = 0
        /\ \A i \in RunsOf("version_sets") :
               runs[i].items = <<cr.requirement.id>>
        /\ Stepping("version_sets") =>
               /\ iter.it.tag = "Left"
               /\ yielded \o iter.it.rest = <<cr.requirement.id>>

C4_Witness ==
    /\ Held
    /\ cr.requirement = Single(1)
    /\ unions # <<>>
    /\ RunsOf("version_sets") # {}

\* The pairs of one expansion with conditions, finished or under way: the
\* stored members in order, each with a buffer of its own that holds the
\* requirement's conditions unless the client changed it.
PairsAsClaimed(items, complete) ==
    /\ IF complete
       THEN Len(items) = Len(StoredMembers(cr.requirement))
       ELSE Len(items) <= Len(StoredMembers(cr.requirement))
    /\ \A i \in 1..Len(items) :
           /\ items[i].vs = StoredMembers(cr.requirement)[i]
           /\ items[i].conditions # cr.conditions
           /\ items[i].conditions \notin mutated =>
                  heap[items[i].conditions] = crSrc.conds
    /\ \A i, j \in 1..Len(items) :
           i # j => items[i].conditions # items[j].conditions

\* C5: version_sets_with_condition yields, for each version set of the
\* requirement's expansion and in that order, the version set with a copy of
\* the full condition sequence; every copy is a buffer of its own, so a copy
\* the client changed leaves the other copies and the requirement's own
\* conditions as they were.
C5_PairsWithIndependentCopies ==
    Held =>
        /\ heap[cr.conditions] = crSrc.conds
        /\ \A i \in RunsOf("version_sets_with_condition") :
               PairsAsClaimed(runs[i].items, TRUE)
        /\ Stepping("version_sets_with_condition") =>
               PairsAsClaimed(yielded, FALSE)

C5_Witness ==
    /\ Held
    /\ cr.requirement.tag = "Union"
    /\ Len(crSrc.conds) = 2
    /\ crSrc.conds[1] # crSrc.conds[2]
    /\ Len(runs) = 1
    /\ runs[1].kind = "version_sets_with_condition"
    /\ Len(runs[1].items) = 2
    /\ mutated = {runs[1].items[1].conditions}
    /\ heap[runs[1].items[1].conditions] # crSrc.conds
    /\ heap[runs[1].items[2].conditions] = crSrc.conds

\* C6: the From conversions into a ConditionalRequirement store the supplied
\* conditions (none unless a pair is given) and the requirement the input
\* stands for.
C6_ImplicitConversions ==
    Held =>
        /\ crSrc.ctor = "Requirement" =>
               /\ heap[cr.conditions] = <<>>
               /\ cr.requirement = crSrc.arg
        /\ crSrc.ctor = "VersionSetId" =>
               /\ heap[cr.conditions] = <<>>
               /\ cr.requirement = [tag |-> "Single", id |-> crSrc.arg]
        /\ crSrc.ctor = "VersionSetUnionId" =>
               /\ heap[cr.conditions] = <<>>
               /\ cr.requirement = [tag |-> "Union", id |-> crSrc.arg]
        /\ crSrc.ctor = "pair" =>
               /\ heap[cr.conditions] = crSrc.conds
               /\ cr.requirement = [tag |-> "Single", id |-> crSrc.arg]

C6_Witness ==
    /\ Held
    /\ crSrc.ctor = "pair"
    /\ crSrc.arg = 1
    /\ Len(crSrc.conds) = 2
    /\ heap[cr.conditions] = crSrc.conds

\* C7: into_condition_and_requirement of new(conds, req) returns conds and
\* req as they were given.
C7_NewThenDecompose ==
    (parts # None /\ crSrc.ctor = "new") =>
        /\ heap[parts.conditions] = crSrc.conds
        /\ parts.requirement = crSrc.arg

C7_Witness ==
    /\ parts # None
    /\ crSrc.ctor = "new"
    /\ crSrc.arg.tag = "Union"
    /\ Len(crSrc.conds) = 2
    /\ crSrc.conds[1] = crSrc.conds[2]
    /\ heap[parts.conditions] = crSrc.conds

\* The text of one member: package name, one space, constraint text.
MemberText(v) ==
    display_name(version_set_name(v)) \o <<" ">> \o display_version_set(v)

\* Where the text of member i starts (0-based) when every member before it
\* is followed by a three-character separator.
RECURSIVE MemberOffset(_, _)
MemberOffset(members, i) ==
    IF i = 1 THEN 0
    ELSE MemberOffset(members, i - 1) + Len(MemberText(members[i - 1])) + 3

\* The text holds every member's text at its offset, a separator between
\* neighbours, and nothing else.
RenderedAsClaimed(text, members) ==
    LET n == Len(members)
    IN  /\ n >= 1
        /\ Len(text) = MemberOffset(members, n) + Len(MemberText(members[n]))
        /\ \A i \in 1..n :
               LET off == MemberOffset(members, i)
                   len == Len(MemberText(members[i]))
               IN  /\ SubSeq(text, off + 1, off + len) = MemberText(members[i])
                   /\ i < n =>
                          SubSeq(text, off + len + 1, off + len + 3)
                              = <<" ", "|", " ">>

\* C8: display renders, for every member of the requirement's expansion in
\* order, the member's package name, one space and its constraint text; the
\* member texts are separated by " | ", with nothing before the first and
\* nothing after the last.
C8_DisplayJoinsMembers ==
    (Held /\ rendered # None) =>
        RenderedAsClaimed(rendered.text, StoredMembers(cr.requirement))

C8_Witness ==
    /\ Held
    /\ rendered # None
    /\ cr.requirement.tag = "Union"
    /\ unions[cr.requirement.id + 1] = <<1, 0>>
    /\ rendered.text = <<"p", " ", ">", "=", "1", " ", "|", " ",
                         "p", " ", ">", "=">>

\* The first components of yielded pairs.
VersionSetsOf(items) == [i \in 1..Len(items) |-> items[i].vs]

\* C9: requirement_version_sets yields the requirement's own expansion
\* whatever the conditions are: the same as version_sets yields, and the
\* same as the version sets of the pairs of version_sets_with_condition.
C9_ConditionsIgnored ==
    Held =>
        /\ \A i \in RunsOf("requirement_version_sets") :
               /\ runs[i].items = StoredMembers(cr.requirement)
               /\ \A j \in RunsOf("version_sets") :
                      runs[j].items = runs[i].items
               /\ \A j \in RunsOf("version_sets_with_condition") :
                      VersionSetsOf(runs[j].items) = runs[i].items
        /\ Stepping("requirement_version_sets") =>
               yielded \o iter.it.rest = StoredMembers(cr.requirement)

C9_Witness ==
    /\ Held
    /\ crSrc.conds # <<>>
    /\ cr.requirement.tag = "Union"
    /\ Len(runs) = 2
    /\ runs[1].kind = "requirement_version_sets"
    /\ runs[2].kind = "version_sets_with_condition"
    /\ Len(runs[1].items) = 2

\* No expansion has yielded more than is stored, and a finished one has
\* yielded exactly that many.
ExpansionBounded ==
    Held =>
        /\ iter # None => Len(yielded) <= Len(StoredMembers(cr.requirement))
        /\ \A i \in 1..Len(runs) :
               Len(runs[i].items) = Len(StoredMembers(cr.requirement))

\* C10: an expansion that is stepped reaches its end, having yielded as many
\* elements as are stored (one for a single requirement) and never more.
C10_ExpansionCompletes ==
    /\ []ExpansionBounded
    /\ (iter # None) ~> (iter = None)

C10_Witness ==
    /\ Held
    /\ cr.requirement.tag = "Union"
    /\ Len(unions[cr.requirement.id + 1]) = 2
    /\ Len(runs) = 2
    /\ runs[1].kind = "version_sets"
    /\ runs[2].kind = "version_sets_with_condition"

====
